---- MODULE Spec2Model ----
(***************************************************************************)
(* A model of the OpenMetrics text-exposition grammar of src/src/lib.rs.   *)
(*                                                                         *)
(* A buffer is a sequence of one-character strings.  A parser is applied   *)
(* to a buffer s at a position i (the index of the next unread character,  *)
(* 1-based) and returns a record                                           *)
(*     [ok, rest, val, err]                                                *)
(* where ok is "Ok", "Error" (nom's recoverable Err::Error) or "Failure"   *)
(* (nom's Err::Failure, raised by cut), rest is the position after the     *)
(* match, val the parsed value and err the error chain of a VerboseError:  *)
(* a sequence of [at, kind, what] entries, innermost first.                *)
(* A span (the type I of the source, a slice of the buffer) is the record  *)
(* [lo, hi]: the characters s[lo] .. s[hi-1].                              *)
(***************************************************************************)
EXTENDS Integers, Sequences, FiniteSets, TLC

VARIABLES input, called, result

vars == <<input, called, result>>

\* ------------------------------------------------------------------------
\* Characters (lib.rs 14-17, 364-367)

DQUOTE == "\""
SP == " "
LF == "\n"
BS == "\\"
EQ == "="
COMMA == ","
HASH == "#"

LowerSeq == <<"a","b","c","d","e","f","g","h","i","j","k","l","m",
              "n","o","p","q","r","s","t","u","v","w","x","y","z">>
UpperSeq == <<"A","B","C","D","E","F","G","H","I","J","K","L","M",
              "N","O","P","Q","R","S","T","U","V","W","X","Y","Z">>
LowerSet == {LowerSeq[k] : k \in 1..26}
UpperSet == {UpperSeq[k] : k \in 1..26}
DigitSet == {"0","1","2","3","4","5","6","7","8","9"}

is_ascii_alphabetic(c) == c \in LowerSet \cup UpperSet
is_ascii_digit(c) == c \in DigitSet

\* ASCII lower-casing, as tag_no_case compares
to_lowercase(c) ==
    IF c \in UpperSet THEN LowerSeq[CHOOSE k \in 1..26 : UpperSeq[k] = c] ELSE c

\* ------------------------------------------------------------------------
\* Spans and results

Span(lo, hi) == [lo |-> lo, hi |-> hi]
Text(s, sp) == SubSeq(s, sp.lo, sp.hi - 1)
Remainder(s, r) == SubSeq(s, r.rest, Len(s))

None == <<>>
Some(v) == <<v>>

Ok(j, v) == [ok |-> "Ok", rest |-> j, val |-> v, err |-> <<>>]
Error(e) == [ok |-> "Error", rest |-> 0, val |-> <<>>, err |-> e]
Failure(e) == [ok |-> "Failure", rest |-> 0, val |-> <<>>, err |-> e]
IsOk(r) == r.ok = "Ok"

\* the pair (I, O) that consumed(p) returns
Consumed(i, r) == [span |-> Span(i, r.rest), node |-> r.val]

\* VerboseError, the error type the tests instantiate E with
from_error_kind(i, k) == <<[at |-> i, kind |-> "Nom", what |-> k]>>
from_char(i, c) == <<[at |-> i, kind |-> "Char", what |-> c]>>
append(i, k, e) == Append(e, [at |-> i, kind |-> "Nom", what |-> k])
add_context(i, ctx, e) == Append(e, [at |-> i, kind |-> "Context", what |-> ctx])

\* ------------------------------------------------------------------------
\* nom combinators.  A combinator takes the result of the parser it wraps and
\* binds it once, as the Rust code runs a parser once per call: x ranges over
\* the one-element set of that result.

\* tuple((p, q, ..)): q runs where p stopped, and only when p is Ok
then(r, f(_)) == CHOOSE y \in {IF IsOk(x) THEN f(x) ELSE x : x \in {r}} : TRUE

\* a context that pushes nothing
context_dropped(ctx, i, r) == r

\* context(ctx, p): pushes ctx on an Error and on a Failure alike; only an Ok
\* result has an empty chain
context(ctx, i, r) == [r EXCEPT !.err = IF @ = <<>> THEN @ ELSE add_context(i, ctx, @)]

\* opt(p): an Error becomes Ok(None); a Failure passes
opt(i, r) ==
    CHOOSE y \in {CASE x.ok = "Ok" -> Ok(x.rest, Some(x.val))
                    [] x.ok = "Error" -> Ok(i, None)
                    [] OTHER -> x : x \in {r}} : TRUE

\* recognize(p): the consumed span instead of the value
recognize(i, r) ==
    CHOOSE y \in {IF IsOk(x) THEN Ok(x.rest, Span(i, x.rest)) ELSE x : x \in {r}} : TRUE

\* consumed(p): the consumed span paired with the value
consumed(i, r) ==
    CHOOSE y \in {IF IsOk(x) THEN Ok(x.rest, Consumed(i, x)) ELSE x : x \in {r}} : TRUE

\* opt(consumed(p))
opt_consumed(i, r) ==
    CHOOSE y \in {CASE x.ok = "Ok" -> Ok(x.rest, Some(Consumed(i, x)))
                    [] x.ok = "Error" -> Ok(i, None)
                    [] OTHER -> x : x \in {r}} : TRUE

\* cut(p): an Error becomes a Failure
cut(r) == [r EXCEPT !.ok = IF @ = "Error" THEN "Failure" ELSE @]

\* alt((p1, p2, ...)): the first result that is not an Error; when every
\* alternative is an Error, the last one's error (ParseError::or keeps the later
\* error) with ErrorKind::Alt appended
alt2(i, r1, r2) ==
    CHOOSE y \in {CASE x1.ok # "Error" -> x1
                    [] x2.ok # "Error" -> x2
                    [] OTHER -> Error(append(i, "Alt", x2.err))
                  : x1 \in {r1}, x2 \in {r2}} : TRUE

alt3(i, r1, r2, r3) ==
    CHOOSE y \in {IF x.ok # "Error" THEN x ELSE alt2(i, r2, r3) : x \in {r1}} : TRUE

alt4(i, r1, r2, r3, r4) ==
    CHOOSE y \in {IF x.ok # "Error" THEN x ELSE alt3(i, r2, r3, r4) : x \in {r1}} : TRUE

\* alt over a tuple of results, in order
alt(i, rs) ==
    CHOOSE y \in {IF \E k \in 1..Len(v) : v[k].ok # "Error"
                  THEN v[CHOOSE k \in 1..Len(v) :
                             v[k].ok # "Error" /\ \A j \in 1..(k - 1) : v[j].ok = "Error"]
                  ELSE Error(append(i, "Alt", v[Len(v)].err)) : v \in {rs}} : TRUE

\* char(c)
char(s, i, c) ==
    IF i <= Len(s) /\ s[i] = c THEN Ok(i + 1, c) ELSE Error(from_char(i, c))

\* satisfy(cond); holds is cond of the character at i, read only inside the buffer
satisfy(s, i, holds) ==
    IF i <= Len(s) /\ holds THEN Ok(i + 1, s[i])
    ELSE Error(from_error_kind(i, "Satisfy"))

\* tag(t)
tag(s, i, t) ==
    IF i + Len(t) - 1 <= Len(s) /\ SubSeq(s, i, i + Len(t) - 1) = t
    THEN Ok(i + Len(t), Span(i, i + Len(t)))
    ELSE Error(from_error_kind(i, "Tag"))

\* tag_no_case(t)
tag_no_case(s, i, t) ==
    IF /\ i + Len(t) - 1 <= Len(s)
       /\ \A k \in 1..Len(t) : to_lowercase(s[i + k - 1]) = to_lowercase(t[k])
    THEN Ok(i + Len(t), Span(i, i + Len(t)))
    ELSE Error(from_error_kind(i, "Tag"))

\* ------------------------------------------------------------------------
\* Keywords (lib.rs 350-362)

EOF == <<"E","O","F">>
TYPE == <<"T","Y","P","E">>
HELP == <<"H","E","L","P">>
UNIT == <<"U","N","I","T">>

COUNTER == <<"c","o","u","n","t","e","r">>
GAUGE == <<"g","a","u","g","e">>
HISTOGRAM == <<"h","i","s","t","o","g","r","a","m">>
GAUGEHISTOGRAM == <<"g","a","u","g","e","h","i","s","t","o","g","r","a","m">>
STATESET == <<"s","t","a","t","e","s","e","t">>
INFO == <<"i","n","f","o">>
SUMMARY == <<"s","u","m","m","a","r","y">>
UNKNOWN == <<"u","n","k","n","o","w","n">>

INF == <<"i","n","f">>
INFINITY == <<"i","n","f","i","n","i","t","y">>
NAN == <<"n","a","n">>

\* ------------------------------------------------------------------------
\* Classifiers (lib.rs 369-417)

is_sign(c) == c = "-" \/ c = "+"

is_metricname_initial_char(c) == is_ascii_alphabetic(c) \/ c = "_" \/ c = ":"

\* a continuation alphabet that forgets "_"
is_metricname_char_no_underscore(c) == is_ascii_alphabetic(c) \/ c = ":" \/ is_ascii_digit(c)

is_metricname_char(c) == is_metricname_initial_char(c) \/ is_ascii_digit(c)

is_label_name_initial_char(c) == is_ascii_alphabetic(c)

is_label_name_char(c) == is_label_name_initial_char(c) \/ is_ascii_digit(c)

is_normal_char(c) == c # LF /\ c # DQUOTE /\ c # BS

\* a help alphabet that, like the label-value one, excludes the quote
is_help_normal_char_no_quote(c) == c # LF /\ c # DQUOTE /\ c # BS

is_help_normal_char(c) == c # LF /\ c # BS

\* fold_many0(satisfy(is_metricname_char), ..) and the take_while of the UNIT
\* payload: the position after the longest run of metric-name characters, where
\* the loop stops
metricname_chars(s, i) ==
    CHOOSE j \in i..(Len(s) + 1) :
        /\ \A k \in i..(j - 1) : is_metricname_char(s[k])
        /\ j <= Len(s) => ~is_metricname_char(s[j])

\* fold_many0(satisfy(is_label_name_char), ..)
label_name_chars(s, i) ==
    CHOOSE j \in i..(Len(s) + 1) :
        /\ \A k \in i..(j - 1) : is_label_name_char(s[k])
        /\ j <= Len(s) => ~is_label_name_char(s[j])

metricname(s, i) ==
    context("metricname", i,
        recognize(i, then(satisfy(s, i, is_metricname_initial_char(s[i])),
                          LAMBDA c : Ok(metricname_chars(s, c.rest), <<>>))))

label_name(s, i) ==
    context("label_name", i,
        recognize(i, then(satisfy(s, i, is_label_name_initial_char(s[i])),
                          LAMBDA c : Ok(label_name_chars(s, c.rest), <<>>))))

\* ------------------------------------------------------------------------
\* Numbers (lib.rs 321-348)

\* the position after the longest run of ASCII digits
digits(s, i) ==
    CHOOSE j \in i..(Len(s) + 1) :
        /\ \A k \in i..(j - 1) : is_ascii_digit(s[k])
        /\ j <= Len(s) => ~is_ascii_digit(s[j])

\* nom's digit1
digit1(s, i) ==
    CHOOSE y \in {IF j > i THEN Ok(j, Span(i, j)) ELSE Error(from_error_kind(i, "Digit"))
                  : j \in {digits(s, i)}} : TRUE

\* opt(alt((char('+'), char('-'))))
opt_sign(s, i) == opt(i, alt2(i, char(s, i, "+"), char(s, i, "-")))

\* alt((digit1 ['.' [digit1]], '.' digit1))
mantissa(s, i) ==
    alt2(i,
         then(digit1(s, i), LAMBDA d :
              opt(d.rest, then(char(s, d.rest, "."), LAMBDA p : opt(p.rest, digit1(s, p.rest))))),
         then(char(s, i, "."), LAMBDA p : digit1(s, p.rest)))

\* opt(tuple((alt((char('e'), char('E'))), opt(sign), cut(digit1))))
exponent(s, i) ==
    opt(i, then(alt2(i, char(s, i, "e"), char(s, i, "E")), LAMBDA e :
                then(opt_sign(s, e.rest), LAMBDA sg : cut(digit1(s, sg.rest)))))

\* nom::number::complete::recognize_float
recognize_float(s, i) ==
    recognize(i, then(opt_sign(s, i), LAMBDA sg :
                      then(mantissa(s, sg.rest), LAMBDA m : exponent(s, m.rest))))

realnumber(s, i) == context("realnumber", i, recognize_float(s, i))

timestamp(s, i) == realnumber(s, i)

\* alt((tag_no_case("inf"), tag_no_case("infinity")))
inf_keyword(s, i) == alt2(i, tag_no_case(s, i, INF), tag_no_case(s, i, INFINITY))

\* recognize(tuple((opt(satisfy(is_sign)), alt((inf, infinity)))))
signed_inf(s, i) ==
    recognize(i, then(opt(i, satisfy(s, i, is_sign(s[i]))), LAMBDA sg : inf_keyword(s, sg.rest)))

number(s, i) ==
    context("number", i,
        alt3(i, realnumber(s, i), signed_inf(s, i), recognize(i, tag_no_case(s, i, NAN))))

\* ------------------------------------------------------------------------
\* Escaped strings (lib.rs 419-495)

Fragment(kind, text) == [kind |-> kind, text |-> text]

\* alt((satisfy(is_normal_char), tuple((char(BS), satisfy(normal, not 'n'))))) matches
\* at k: a normal character, or a backslash that starts a folded pair.  The second
\* character of a pair is a normal character, so it matches on its own as well.
normal_at(s, k) ==
    \/ is_normal_char(s[k])
    \/ s[k] = BS /\ k + 1 <= Len(s) /\ is_normal_char(s[k + 1]) /\ s[k + 1] # "n"

help_normal_at(s, k) ==
    \/ is_help_normal_char(s[k])
    \/ s[k] = BS /\ k + 1 <= Len(s) /\ is_help_normal_char(s[k + 1]) /\ s[k + 1] # "n"

\* fold_many1(alt(..)): the position after the longest run of normal characters
\* and folded pairs
normal_run(s, i) ==
    CHOOSE j \in i..(Len(s) + 1) :
        /\ \A k \in i..(j - 1) : normal_at(s, k)
        /\ j <= Len(s) => ~normal_at(s, j)

help_normal_run(s, i) ==
    CHOOSE j \in i..(Len(s) + 1) :
        /\ \A k \in i..(j - 1) : help_normal_at(s, k)
        /\ j <= Len(s) => ~help_normal_at(s, j)

\* a Normal fragment that loses its last character
normal_short(i, run) ==
    CHOOSE y \in {IF j > i THEN Ok(j, Fragment("Normal", Some(Span(i, j - 1))))
                  ELSE Error(from_error_kind(i, "Many1")) : j \in {run}} : TRUE

\* recognize(fold_many1(..)).map(Normal)
normal(i, run) ==
    CHOOSE y \in {IF j > i THEN Ok(j, Fragment("Normal", Some(Span(i, j))))
                  ELSE Error(from_error_kind(i, "Many1")) : j \in {run}} : TRUE

\* tuple((char(BS), char(c))).map(|_| kind)
escape(s, i, c, kind) ==
    then(char(s, i, BS), LAMBDA b :
         then(char(s, b.rest, c), LAMBDA d : Ok(d.rest, Fragment(kind, None))))

\* one fragment of the label-value dialect
escaped_string_fragment(s, i) ==
    alt4(i, normal(i, normal_run(s, i)),
            escape(s, i, "n", "Lf"),
            escape(s, i, DQUOTE, "Dquote"),
            escape(s, i, BS, "Bs"))

\* one fragment of the help-text dialect
help_escaped_string_fragment(s, i) ==
    alt3(i, normal(i, help_normal_run(s, i)),
            escape(s, i, "n", "Lf"),
            escape(s, i, BS, "Bs"))

\* many0(consumed(fragment))
RECURSIVE escaped_string_many0(_, _, _)
escaped_string_many0(s, i, acc) ==
    CHOOSE y \in {CASE r.ok = "Error" -> Ok(i, acc)
                    [] r.ok = "Failure" -> r
                    [] r.rest = i -> Error(from_error_kind(i, "Many0"))
                    [] OTHER -> escaped_string_many0(s, r.rest, Append(acc, Consumed(i, r)))
                  : r \in {escaped_string_fragment(s, i)}} : TRUE

RECURSIVE help_escaped_string_many0(_, _, _)
help_escaped_string_many0(s, i, acc) ==
    CHOOSE y \in {CASE r.ok = "Error" -> Ok(i, acc)
                    [] r.ok = "Failure" -> r
                    [] r.rest = i -> Error(from_error_kind(i, "Many0"))
                    [] OTHER -> help_escaped_string_many0(s, r.rest, Append(acc, Consumed(i, r)))
                  : r \in {help_escaped_string_fragment(s, i)}} : TRUE

escaped_string(s, i) == context("escaped_string", i, escaped_string_many0(s, i, <<>>))

help_escaped_string(s, i) ==
    context("help_escaped_string", i, help_escaped_string_many0(s, i, <<>>))

\* ------------------------------------------------------------------------
\* Labels (lib.rs 273-319)

\* label_name, char(EQ), char(DQUOTE): a label up to its value; the value of
\* the result is the name
label_head(s, i) ==
    then(label_name(s, i), LAMBDA n :
    then(char(s, n.rest, EQ), LAMBDA e :
    then(char(s, e.rest, DQUOTE), LAMBDA q : Ok(q.rest, n.val))))

\* .., consumed(escaped_string), char(DQUOTE)
label(s, i) ==
    context("label", i,
        then(label_head(s, i), LAMBDA n :
        then(escaped_string(s, n.rest), LAMBDA v :
        then(char(s, v.rest, DQUOTE), LAMBDA z :
             Ok(z.rest, [label_name |-> n.val, escaped_string |-> Consumed(n.rest, v)])))))

\* char(COMMA) and then consumed(label), one round of separated_list0
separated_label(s, i) ==
    then(char(s, i, COMMA), LAMBDA sep : consumed(sep.rest, label(s, sep.rest)))

\* the loop of separated_list0(char(COMMA), consumed(label)), after the first
\* label: a separator that no label follows is not consumed
RECURSIVE separated_list0_rest(_, _, _)
separated_list0_rest(s, i, acc) ==
    CHOOSE y \in {CASE r.ok = "Error" -> Ok(i, acc)
                    [] r.ok = "Failure" -> r
                    [] OTHER -> separated_list0_rest(s, r.rest, Append(acc, r.val))
                  : r \in {separated_label(s, i)}} : TRUE

separated_list0(s, i) ==
    CHOOSE y \in {CASE r.ok = "Error" -> Ok(i, <<>>)
                    [] r.ok = "Failure" -> r
                    [] OTHER -> separated_list0_rest(s, r.rest, <<Consumed(i, r)>>)
                  : r \in {label(s, i)}} : TRUE

labels(s, i) ==
    context("labels", i,
        then(char(s, i, "{"), LAMBDA a :
        then(separated_list0(s, a.rest), LAMBDA l :
        then(char(s, l.rest, "}"), LAMBDA z :
             Ok(z.rest, [label |-> l.val])))))

\* ------------------------------------------------------------------------
\* Samples and exemplars (lib.rs 158-170, 205-271)

\* opt(tuple((char(SP), timestamp))), mapped to the timestamp alone
opt_timestamp(s, i) ==
    opt(i, then(char(s, i, SP), LAMBDA sp : timestamp(s, sp.rest)))

\* char(SP), char(HASH), char(SP): an exemplar up to its labels
exemplar_head(s, i) ==
    then(char(s, i, SP), LAMBDA a :
    then(char(s, a.rest, HASH), LAMBDA b : char(s, b.rest, SP)))

\* .., consumed(labels), char(SP), number, opt(timestamp)
exemplar(s, i) ==
    context("exemplar", i,
        then(exemplar_head(s, i), LAMBDA c :
        then(labels(s, c.rest), LAMBDA l :
        then(char(s, l.rest, SP), LAMBDA d :
        then(number(s, d.rest), LAMBDA n :
        then(opt_timestamp(s, n.rest), LAMBDA ts :
             Ok(ts.rest, [labels |-> Consumed(c.rest, l), number |-> n.val,
                          timestamp |-> ts.val])))))))

\* metricname, opt(consumed(labels)), char(SP), number, opt(timestamp): a sample
\* up to its exemplar
sample_head(s, i) ==
    then(metricname(s, i), LAMBDA m :
    then(opt_consumed(m.rest, labels(s, m.rest)), LAMBDA l :
    then(char(s, l.rest, SP), LAMBDA a :
    then(number(s, a.rest), LAMBDA n :
    then(opt_timestamp(s, n.rest), LAMBDA ts :
         Ok(ts.rest, [metricname |-> m.val, labels |-> l.val, number |-> n.val,
                      timestamp |-> ts.val]))))))

\* .., opt(consumed(exemplar)), char(LF)
sample(s, i) ==
    context("sample", i,
        then(sample_head(s, i), LAMBDA h :
        then(opt_consumed(h.rest, exemplar(s, h.rest)), LAMBDA ex :
        then(char(s, ex.rest, LF), LAMBDA z :
             Ok(z.rest, [metricname |-> h.val.metricname, labels |-> h.val.labels,
                         number |-> h.val.number, timestamp |-> h.val.timestamp,
                         exemplar |-> ex.val])))))

Metric(sm) == [sample |-> <<sm>>]

\* consumed(sample).map(|sample| Metric { sample: vec![sample] })
metric(s, i) ==
    context("metric", i,
        then(sample(s, i), LAMBDA sm : Ok(sm.rest, Metric(Consumed(i, sm)))))

\* ------------------------------------------------------------------------
\* Metric descriptors (lib.rs 82-156, 172-203)

\* tag(word).map(|_| variant)
keyword(s, i, word, variant) == then(tag(s, i, word), LAMBDA w : Ok(w.rest, variant))

\* an ordering of the alternatives that tries `gauge` before `gaugehistogram`
metric_type_gauge_first(s, i) ==
    context("metric_type", i,
        alt(i, <<keyword(s, i, COUNTER, "Counter"),
                 keyword(s, i, GAUGE, "Gauge"),
                 keyword(s, i, GAUGEHISTOGRAM, "Gaugehistogram"),
                 keyword(s, i, HISTOGRAM, "Histogram"),
                 keyword(s, i, STATESET, "Stateset"),
                 keyword(s, i, INFO, "Info"),
                 keyword(s, i, SUMMARY, "Summary"),
                 keyword(s, i, UNKNOWN, "Unknown")>>))

metric_type(s, i) ==
    context("metric_type", i,
        alt(i, <<keyword(s, i, COUNTER, "Counter"),
                 \* try `gaugehistogram` before `gauge`
                 keyword(s, i, GAUGEHISTOGRAM, "Gaugehistogram"),
                 keyword(s, i, GAUGE, "Gauge"),
                 keyword(s, i, HISTOGRAM, "Histogram"),
                 keyword(s, i, STATESET, "Stateset"),
                 keyword(s, i, INFO, "Info"),
                 keyword(s, i, SUMMARY, "Summary"),
                 keyword(s, i, UNKNOWN, "Unknown")>>))

\* char(HASH), char(SP), tag(word), char(SP), metricname, char(SP): the part the
\* three descriptor lines share; the value is the metricname
descriptor_head(s, i, word) ==
    then(char(s, i, HASH), LAMBDA a :
    then(char(s, a.rest, SP), LAMBDA b :
    then(tag(s, b.rest, word), LAMBDA k :
    then(char(s, k.rest, SP), LAMBDA c :
    then(metricname(s, c.rest), LAMBDA m :
    then(char(s, m.rest, SP), LAMBDA d :
         Ok(d.rest, m.val)))))))

\* .., consumed(metric_type), char(LF)
type_descriptor(s, i) ==
    then(descriptor_head(s, i, TYPE), LAMBDA h :
    then(metric_type(s, h.rest), LAMBDA p :
    then(char(s, p.rest, LF), LAMBDA z :
         Ok(z.rest, [variant |-> "Type", metricname |-> h.val,
                     metric_type |-> Consumed(h.rest, p)]))))

\* .., consumed(help_escaped_string), char(LF)
help_descriptor(s, i) ==
    then(descriptor_head(s, i, HELP), LAMBDA h :
    then(help_escaped_string(s, h.rest), LAMBDA p :
    then(char(s, p.rest, LF), LAMBDA z :
         Ok(z.rest, [variant |-> "Help", metricname |-> h.val,
                     help_escaped_string |-> Consumed(h.rest, p)]))))

\* the UNIT payload is take_while(is_metricname_char), which cannot fail
unit_descriptor(s, i) ==
    then(descriptor_head(s, i, UNIT), LAMBDA h :
    then(Ok(metricname_chars(s, h.rest), <<>>), LAMBDA u :
    then(char(s, u.rest, LF), LAMBDA z :
         Ok(z.rest, [variant |-> "Unit", metricname |-> h.val,
                     metricname_char |-> Span(h.rest, u.rest)]))))

metric_descriptor(s, i) ==
    context("metric_descriptor", i,
        alt3(i, type_descriptor(s, i), help_descriptor(s, i), unit_descriptor(s, i)))

\* ------------------------------------------------------------------------
\* Families, the metricset and the exposition (lib.rs 21-80)

\* the loop of many0 / many1 over consumed(metric_descriptor); kind is the
\* ErrorKind of the no-progress check
RECURSIVE metric_descriptor_loop(_, _, _, _)
metric_descriptor_loop(s, i, acc, kind) ==
    CHOOSE y \in {CASE r.ok = "Error" -> Ok(i, acc)
                    [] r.ok = "Failure" -> r
                    [] r.rest = i -> Error(from_error_kind(i, kind))
                    [] OTHER -> metric_descriptor_loop(s, r.rest, Append(acc, Consumed(i, r)), kind)
                  : r \in {metric_descriptor(s, i)}} : TRUE

RECURSIVE metric_loop(_, _, _, _)
metric_loop(s, i, acc, kind) ==
    CHOOSE y \in {CASE r.ok = "Error" -> Ok(i, acc)
                    [] r.ok = "Failure" -> r
                    [] r.rest = i -> Error(from_error_kind(i, kind))
                    [] OTHER -> metric_loop(s, r.rest, Append(acc, Consumed(i, r)), kind)
                  : r \in {metric(s, i)}} : TRUE

many0_metric_descriptor(s, i) == metric_descriptor_loop(s, i, <<>>, "Many0")

many1_metric_descriptor(s, i) ==
    CHOOSE y \in {CASE r.ok = "Error" -> Error(append(i, "Many1", r.err))
                    [] r.ok = "Failure" -> r
                    [] OTHER -> metric_descriptor_loop(s, r.rest, <<Consumed(i, r)>>, "Many1")
                  : r \in {metric_descriptor(s, i)}} : TRUE

many0_metric(s, i) == metric_loop(s, i, <<>>, "Many0")

many1_metric(s, i) ==
    CHOOSE y \in {CASE r.ok = "Error" -> Error(append(i, "Many1", r.err))
                    [] r.ok = "Failure" -> r
                    [] OTHER -> metric_loop(s, r.rest, <<Consumed(i, r)>>, "Many1")
                  : r \in {metric(s, i)}} : TRUE

Metricfamily(d, m) == [metric_descriptor |-> d, metric |-> m]

\* a first alternative that takes the samples before the descriptors
samples_before_descriptors(s, i) ==
    then(many1_metric(s, i), LAMBDA m :
    then(many0_metric_descriptor(s, m.rest), LAMBDA d :
         Ok(d.rest, Metricfamily(d.val, m.val))))

\* tuple((many1(consumed(metric_descriptor)), many0(consumed(metric))))
descriptors_first(s, i) ==
    then(many1_metric_descriptor(s, i), LAMBDA d :
    then(many0_metric(s, d.rest), LAMBDA m :
         Ok(m.rest, Metricfamily(d.val, m.val))))

\* tuple((many0(consumed(metric_descriptor)), many1(consumed(metric))))
samples_required(s, i) ==
    then(many0_metric_descriptor(s, i), LAMBDA d :
    then(many1_metric(s, d.rest), LAMBDA m :
         Ok(m.rest, Metricfamily(d.val, m.val))))

\* a family that has to begin with a descriptor
metricfamily_descriptor_required(s, i) ==
    context("metricfamily", i, descriptors_first(s, i))

metricfamily(s, i) ==
    context("metricfamily", i, alt2(i, descriptors_first(s, i), samples_required(s, i)))

Metricset(f) == [metricfamily |-> f]

\* many0(consumed(metricfamily)).map(Metricset)
RECURSIVE metricfamily_many0(_, _, _)
metricfamily_many0(s, i, acc) ==
    CHOOSE y \in {CASE r.ok = "Error" -> Ok(i, Metricset(acc))
                    [] r.ok = "Failure" -> r
                    [] r.rest = i -> Error(from_error_kind(i, "Many0"))
                    [] OTHER -> metricfamily_many0(s, r.rest, Append(acc, Consumed(i, r)))
                  : r \in {metricfamily(s, i)}} : TRUE

metricset(s, i) == context("metricset", i, metricfamily_many0(s, i, <<>>))

\* char(HASH), char(SP), tag(EOF), opt(char(LF))
terminator(s, i) ==
    then(char(s, i, HASH), LAMBDA a :
    then(char(s, a.rest, SP), LAMBDA b :
    then(tag(s, b.rest, EOF), LAMBDA k :
         opt(k.rest, char(s, k.rest, LF)))))

\* an exposition whose consumed() wraps the terminator too
exposition_consumed_all(s, i) ==
    context("exposition", i,
        then(metricset(s, i), LAMBDA m :
        then(terminator(s, m.rest), LAMBDA z :
             Ok(z.rest, [metricset |-> [span |-> Span(i, z.rest), node |-> m.val]]))))

\* consumed(metricset), and then the terminator
exposition(s, i) ==
    context("exposition", i,
        then(metricset(s, i), LAMBDA m :
        then(terminator(s, m.rest), LAMBDA z :
             Ok(z.rest, [metricset |-> Consumed(i, m)]))))

\* ------------------------------------------------------------------------
\* Buffers the productions are applied to

\* bounds of the buffers
MaxLines == 2
MaxLen == 3
MaxDigits == 2
MaxSeq == 3

RECURSIVE Concat(_)
Concat(ss) == IF ss = <<>> THEN <<>> ELSE Head(ss) \o Concat(Tail(ss))

\* every sequence over S of length at most n
SeqsUpTo(S, n) == UNION {[1..k -> S] : k \in 0..n}

TypeLine == <<"#"," ","T","Y","P","E"," ","a"," ","c","o","u","n","t","e","r",LF>>
HelpLine == <<"#"," ","H","E","L","P"," ","a"," ","h",DQUOTE,BS,BS,LF>>
UnitLine == <<"#"," ","U","N","I","T"," ","a"," ","s",LF>>
PlainSample == <<"a"," ","1",LF>>
LabelledSample == <<"a","{","b","=",DQUOTE,"c",DQUOTE,"}"," ","2"," ","3",LF>>
ExemplarSample == <<"a"," ","1"," ","#"," ","{","b","=",DQUOTE,"c",DQUOTE,"}"," ","2",LF>>
\* not a sample: the value is no number
BadNumberSample == <<"a"," ","x",LF>>
\* not a sample: an exponent without digits
BadExponentSample == <<"a"," ","1","e",LF>>

DescriptorLines == {TypeLine, HelpLine, UnitLine}
SampleLines == {PlainSample, LabelledSample, ExemplarSample}
WellFormedLines == DescriptorLines \cup SampleLines
Lines == WellFormedLines \cup {BadNumberSample, BadExponentSample}

EofLine == <<"#"," ","E","O","F">>
\* what may follow the line "# EOF": nothing or one line feed
Endings == {<<>>, <<LF>>}
\* further characters after the terminator
Trailers == {<<"x">>, <<LF>>, PlainSample}

\* a valid metricset: well-formed lines only
ValidMetricsets == {Concat(ls) : ls \in SeqsUpTo(WellFormedLines, MaxLines)}
\* a valid exposition
ValidExpositions == {m \o EofLine \o e : m \in ValidMetricsets, e \in Endings}
\* a valid exposition followed by at least one further character
TrailingInputs ==
    {m \o EofLine \o <<LF>> \o t : m \in ValidMetricsets, t \in Trailers}
    \cup {m \o EofLine \o t : m \in ValidMetricsets, t \in {u \in Trailers : Head(u) # LF}}
\* a metricset with an ill-formed line, or no terminator
BrokenExpositions ==
    {Concat(ls) \o e : ls \in SeqsUpTo(Lines, MaxLines) \ SeqsUpTo(WellFormedLines, MaxLines),
                       e \in {<<>>, EofLine \o <<LF>>}}
    \cup ValidMetricsets
    \cup {m \o <<"#"," ","E","O","X",LF>> : m \in ValidMetricsets}

\* lines whose metric names are equal (a), clashing (two types for a) or
\* unrelated (b)
ClashingTypeLine == <<"#"," ","T","Y","P","E"," ","a"," ","g","a","u","g","e",LF>>
OtherHelpLine == <<"#"," ","H","E","L","P"," ","b"," ","h",LF>>
OtherSample == <<"b"," ","2",LF>>
GroupingLines == {TypeLine, ClashingTypeLine, OtherHelpLine, PlainSample, OtherSample}
\* descriptor and sample lines in any order
UngroupedMetricsets == {Concat(ls) : ls \in SeqsUpTo(GroupingLines, MaxSeq)}
\* well-formed lines in any order, and then the line "# EOF" with its line feed
UngroupedExpositions ==
    {m \o EofLine \o <<LF>> : m \in UngroupedMetricsets \cup ValidMetricsets}

\* the two end-to-end scenarios
ScenarioExposition == <<"#"," ","T","Y","P","E"," ","f","o","o"," ","c","o","u","n","t","e","r",LF,"f","o","o","_","t","o","t","a","l"," ","1",LF,"#"," ","E","O","F",LF>>
ScenarioSample ==
    <<"a","c","m","e","_","r","e","q","u","e","s","t","s","_","t","o","t","a","l","{","m","e","t","h","o","d","=",DQUOTE,"G","E","T",DQUOTE,"}"," ","3"," ","#"," ","{","t","r","a","c","e","_","i","d","=",DQUOTE,"a","b","c",DQUOTE,"}"," ","1",".","0",LF>>

\* samples with no label, two labels, and a separator that no label follows
EmptyLabelsSample == <<"a","{","}"," ","1",LF>>
TwoLabelSample ==
    <<"a","{","b","=",DQUOTE,"c",DQUOTE,COMMA,"d","=",DQUOTE,BS,"n",DQUOTE,"}"," ","1",LF>>
TrailingCommaSample == <<"a","{","b","=",DQUOTE,"c",DQUOTE,COMMA,"}"," ","1",LF>>
LabelSamples == {EmptyLabelsSample, TwoLabelSample, TrailingCommaSample}

\* number literals of the three forms
Signs == {<<>>, <<"+">>, <<"-">>}
DigitStrings == SeqsUpTo({"0", "4"}, MaxDigits) \ {<<>>}
Fractions == {<<>>, <<".", "5">>, <<".", "0", "5">>}
Exponents == {<<>>, <<"e", "7">>, <<"E", "-", "7">>, <<"e", "+", "0", "7">>}
RealLiterals ==
    {sg \o d \o f \o e : sg \in Signs, d \in DigitStrings, f \in Fractions, e \in Exponents}
    \cup {sg \o <<".">> \o d \o e : sg \in Signs, d \in DigitStrings, e \in Exponents}
    \cup {<<"2","3">>, <<"0","0","4","2">>, <<"1","3","4","1","2","9","8","4","6","5","6","4","7","9","1","4">>,
          <<"0","3",".","1","2","3","4","2","1">>, <<"1",".","8","9","e","-","7">>}
\* a keyword in every letter case
AnyCase(word) ==
    {[k \in 1..Len(word) |-> IF up[k] THEN UpperSeq[CHOOSE j \in 1..26 : LowerSeq[j] = word[k]]
                             ELSE word[k]] : up \in [1..Len(word) -> BOOLEAN]}
InfLiterals == {sg \o w : sg \in Signs, w \in AnyCase(INF) \cup AnyCase(INFINITY)}
NanLiterals == AnyCase(NAN)
NumberLiterals == RealLiterals \cup InfLiterals \cup NanLiterals
\* strings that are no number literal, or have one as a proper prefix
NumberJunk == {<<"1","e">>, <<"1",".">>, <<".">>, <<"+">>, <<"e","5">>, <<"1","e","+">>, <<"-","-","1">>, <<"i","n">>, <<"n","a">>, <<"1","x">>, <<"+","n","a","n">>, <<"1"," ","2">>, <<"i","n","f"," ">>, <<"4",".","5",".","6">>}

\* the eight metric-type keywords, each as a whole buffer
MetricTypeKeywords ==
    {COUNTER, GAUGE, HISTOGRAM, GAUGEHISTOGRAM, STATESET, INFO, SUMMARY, UNKNOWN}
\* a keyword followed by further characters, and strings close to a keyword
MetricTypeJunk ==
    {GAUGE \o <<"h">>, GAUGE \o <<LF>>, GAUGEHISTOGRAM \o <<LF>>, INFO \o <<"r">>,
     <<"g","a","u","g">>, <<"G","a","u","g","e">>, <<"i","n","f">>}

\* short strings over the characters the token productions tell apart
Alphabet == {"a", "_", "1", "n", BS, DQUOTE, LF}
ShortStrings == SeqsUpTo(Alphabet, MaxLen)

Inputs ==
    ValidExpositions \cup TrailingInputs \cup BrokenExpositions
    \cup {ScenarioExposition, ScenarioSample} \cup LabelSamples
    \cup NumberLiterals \cup NumberJunk \cup ShortStrings
    \cup MetricTypeKeywords \cup MetricTypeJunk
    \cup UngroupedMetricsets \cup UngroupedExpositions

\* ------------------------------------------------------------------------
\* The state machine: a buffer is given, then one production is applied to it

Init ==
    /\ input \in Inputs
    /\ called = "none"
    /\ result = Error(<<>>)

Call(name, r) ==
    /\ called = "none"
    /\ called' = name
    /\ result' = r
    /\ UNCHANGED input

CallExposition == Call("exposition", exposition(input, 1))
CallMetricset == Call("metricset", metricset(input, 1))
CallMetricfamily == Call("metricfamily", metricfamily(input, 1))
CallSample == Call("sample", sample(input, 1))
CallNumber == Call("number", number(input, 1))
CallLabelName == Call("label_name", label_name(input, 1))
CallEscapedString == Call("escaped_string", escaped_string(input, 1))
CallHelpEscapedString == Call("help_escaped_string", help_escaped_string(input, 1))
CallMetricType == Call("metric_type", metric_type(input, 1))

Next ==
    \/ CallExposition
    \/ CallMetricset
    \/ CallMetricfamily
    \/ CallSample
    \/ CallNumber
    \/ CallLabelName
    \/ CallEscapedString
    \/ CallHelpEscapedString
    \/ CallMetricType

Spec == Init /\ [][Next]_vars

\* ------------------------------------------------------------------------
\* Properties

\* the production consumed the whole buffer
ConsumedAll == result.rest = Len(input) + 1
\* the text of a span of the buffer
TextOf(sp) == Text(input, sp)

\* C1: exposition returns an error for every valid exposition (a valid metricset,
\* the line "# EOF", an optional line feed) that is followed by at least one
\* further character.
C1_TrailingInputRejected ==
    (called = "exposition" /\ input \in TrailingInputs) => ~IsOk(result)

\* C2: exposition applied to "# TYPE foo counter\nfoo_total 1\n# EOF\n" succeeds
\* with an empty remainder; the metricset holds exactly one family, with exactly
\* one descriptor (Type, metricname foo, Counter) and exactly one sample
\* (metricname foo_total, no labels, number 1, no timestamp, no exemplar).
C2_ScenarioExposition ==
    (called = "exposition" /\ input = ScenarioExposition) =>
        /\ IsOk(result)
        /\ Remainder(input, result) = <<>>
        /\ LET families == result.val.metricset.node.metricfamily
           IN /\ Len(families) = 1
              /\ LET family == families[1].node
                 IN /\ Len(family.metric_descriptor) = 1
                    /\ LET d == family.metric_descriptor[1].node
                       IN /\ d.variant = "Type"
                          /\ TextOf(d.metricname) = <<"f","o","o">>
                          /\ d.metric_type.node = "Counter"
                    /\ Len(family.metric) = 1
                    /\ Len(family.metric[1].node.sample) = 1
                    /\ LET sm == family.metric[1].node.sample[1].node
                       IN /\ TextOf(sm.metricname) = <<"f","o","o","_","t","o","t","a","l">>
                          /\ sm.labels = None
                          /\ TextOf(sm.number) = <<"1">>
                          /\ sm.timestamp = None
                          /\ sm.exemplar = None

C2_Witness ==
    /\ called = "exposition" /\ input = ScenarioExposition
    /\ IsOk(result) /\ Len(result.val.metricset.node.metricfamily) = 1

\* a label block with exactly one label, of the given name and value
OneLabel(lbs, name, value) ==
    /\ Len(lbs.node.label) = 1
    /\ TextOf(lbs.node.label[1].node.label_name) = name
    /\ TextOf(lbs.node.label[1].node.escaped_string.span) = value

\* C3: sample applied to
\* "acme_requests_total{method=\"GET\"} 3 # {trace_id=\"abc\"} 1.0\n" succeeds,
\* consumes the whole line and yields metricname acme_requests_total, exactly
\* one label method="GET", number 3, no timestamp, and an exemplar with exactly
\* one label trace_id="abc" and number 1.0.
C3_ScenarioSample ==
    (called = "sample" /\ input = ScenarioSample) =>
        /\ IsOk(result)
        /\ ConsumedAll
        /\ TextOf(result.val.metricname) = <<"a","c","m","e","_","r","e","q","u","e","s","t","s","_","t","o","t","a","l">>
        /\ result.val.labels # None
        /\ OneLabel(result.val.labels[1], <<"m","e","t","h","o","d">>, <<"G","E","T">>)
        /\ TextOf(result.val.number) = <<"3">>
        /\ result.val.timestamp = None
        /\ result.val.exemplar # None
        /\ OneLabel(result.val.exemplar[1].node.labels, <<"t","r","a","c","e","_","i","d">>, <<"a","b","c">>)
        /\ TextOf(result.val.exemplar[1].node.number) = <<"1",".","0">>

\* C4: for every number literal s of the three forms (real number, optionally
\* signed inf or infinity in any letter case, nan in any letter case), number
\* succeeds, returns s itself as the span and leaves an empty remainder.
C4_NumberLiteralsVerbatim ==
    (called = "number" /\ input \in NumberLiterals) =>
        /\ IsOk(result)
        /\ result.val = Span(1, Len(input) + 1)
        /\ Remainder(input, result) = <<>>

\* the label-name alphabet the claim states
ClaimedLabelNameInitial(c) == is_ascii_alphabetic(c) \/ c = "_"
ClaimedLabelNameChar(c) == ClaimedLabelNameInitial(c) \/ is_ascii_digit(c)
\* the end of the longest prefix of the buffer made of claimed label-name characters
ClaimedLabelNameEnd ==
    CHOOSE j \in 1..(Len(input) + 1) :
        /\ \A k \in 1..(j - 1) : ClaimedLabelNameChar(input[k])
        /\ j <= Len(input) => ~ClaimedLabelNameChar(input[j])

\* C5: label_name matches the longest prefix whose first character is an ASCII
\* letter or "_" and whose later characters are ASCII letters, "_" or digits; it
\* fails only when the first character is outside {ASCII letter, "_"}.
C5_LabelNameAlphabet ==
    called = "label_name" =>
        IF input # <<>> /\ ClaimedLabelNameInitial(input[1])
        THEN IsOk(result) /\ result.val = Span(1, ClaimedLabelNameEnd)
        ELSE ~IsOk(result)

\* the spans of a sequence of consumed pairs
SpansOf(cs) == [k \in 1..Len(cs) |-> cs[k].span]
Range(f) == {f[k] : k \in DOMAIN f}

\* the result of the production called, as the pair consumed() would give
Top == [span |-> Span(1, result.rest), node |-> result.val]

\* the families of a successful parse, each with its span
FamiliesOf ==
    CASE ~IsOk(result) -> <<>>
      [] called = "exposition" -> result.val.metricset.node.metricfamily
      [] called = "metricset" -> result.val.metricfamily
      [] called = "metricfamily" -> <<Top>>
      [] OTHER -> <<>>

\* C6: in every Metricfamily of a successful parse every descriptor's span lies
\* entirely before every sample's span, and the descriptors form a contiguous
\* prefix of the family: the first starts where the family starts and each next
\* one where the previous one ended.
C6_DescriptorsBeforeSamples ==
    \A f \in Range(FamiliesOf) :
        LET ds == SpansOf(f.node.metric_descriptor)
            ms == SpansOf(f.node.metric)
        IN /\ \A d \in Range(ds) : \A m \in Range(ms) : d.hi <= m.lo
           /\ \A k \in 1..Len(ds) : ds[k].lo = IF k = 1 THEN f.span.lo ELSE ds[k - 1].hi

C6_Witness ==
    /\ called = "exposition"
    /\ \E f \in Range(FamiliesOf) :
           Len(f.node.metric_descriptor) >= 1 /\ Len(f.node.metric) >= 1

\* Every node of a parse tree that has children, as [kind, span, children]:
\* children are the spans the node stores, in the order of its fields.
EscapedNodes(kind, c) == {[kind |-> kind, span |-> c.span, children |-> SpansOf(c.node)]}

LabelNodes(c) ==
    {[kind |-> "Label", span |-> c.span,
      children |-> <<c.node.label_name, c.node.escaped_string.span>>]}
    \cup EscapedNodes("EscapedString", c.node.escaped_string)

LabelsNodes(c) ==
    {[kind |-> "Labels", span |-> c.span, children |-> SpansOf(c.node.label)]}
    \cup UNION {LabelNodes(l) : l \in Range(c.node.label)}

ExemplarNodes(c) ==
    {[kind |-> "Exemplar", span |-> c.span,
      children |-> <<c.node.labels.span, c.node.number>> \o c.node.timestamp]}
    \cup LabelsNodes(c.node.labels)

SampleNodes(c) ==
    {[kind |-> "Sample", span |-> c.span,
      children |-> <<c.node.metricname>> \o SpansOf(c.node.labels) \o <<c.node.number>>
                   \o c.node.timestamp \o SpansOf(c.node.exemplar)]}
    \cup UNION {LabelsNodes(l) : l \in Range(c.node.labels)}
    \cup UNION {ExemplarNodes(e) : e \in Range(c.node.exemplar)}

MetricNodes(c) ==
    {[kind |-> "Metric", span |-> c.span, children |-> SpansOf(c.node.sample)]}
    \cup UNION {SampleNodes(sm) : sm \in Range(c.node.sample)}

DescriptorNodes(c) ==
    CASE c.node.variant = "Type" ->
           {[kind |-> "MetricDescriptor", span |-> c.span,
             children |-> <<c.node.metricname, c.node.metric_type.span>>]}
      [] c.node.variant = "Help" ->
           {[kind |-> "MetricDescriptor", span |-> c.span,
             children |-> <<c.node.metricname, c.node.help_escaped_string.span>>]}
           \cup EscapedNodes("HelpEscapedString", c.node.help_escaped_string)
      [] OTHER ->
           {[kind |-> "MetricDescriptor", span |-> c.span,
             children |-> <<c.node.metricname, c.node.metricname_char>>]}

FamilyNodes(c) ==
    {[kind |-> "Metricfamily", span |-> c.span,
      children |-> SpansOf(c.node.metric_descriptor) \o SpansOf(c.node.metric)]}
    \cup UNION {DescriptorNodes(d) : d \in Range(c.node.metric_descriptor)}
    \cup UNION {MetricNodes(m) : m \in Range(c.node.metric)}

MetricsetNodes(c) ==
    {[kind |-> "Metricset", span |-> c.span, children |-> SpansOf(c.node.metricfamily)]}
    \cup UNION {FamilyNodes(f) : f \in Range(c.node.metricfamily)}

ExpositionNodes(c) ==
    {[kind |-> "Exposition", span |-> c.span, children |-> <<c.node.metricset.span>>]}
    \cup MetricsetNodes(c.node.metricset)

Nodes ==
    CASE ~IsOk(result) -> {}
      [] called = "exposition" -> ExpositionNodes(Top)
      [] called = "metricset" -> MetricsetNodes(Top)
      [] called = "metricfamily" -> FamilyNodes(Top)
      [] called = "sample" -> SampleNodes(Top)
      [] called = "escaped_string" -> EscapedNodes("EscapedString", Top)
      [] called = "help_escaped_string" -> EscapedNodes("HelpEscapedString", Top)
      [] OTHER -> {}

\* the children's spans, concatenated in order, are exactly the node's span
Tiles(n) ==
    LET c == n.children
    IN IF c = <<>> THEN n.span.lo = n.span.hi
       ELSE /\ c[1].lo = n.span.lo
            /\ c[Len(c)].hi = n.span.hi
            /\ \A k \in 1..(Len(c) - 1) : c[k].hi = c[k + 1].lo

\* the children's spans lie inside the node's span, in order, without overlap
InOrderInside(n) ==
    LET c == n.children
    IN \A k \in 1..Len(c) :
           /\ n.span.lo <= c[k].lo /\ c[k].lo <= c[k].hi /\ c[k].hi <= n.span.hi
           /\ k < Len(c) => c[k].hi <= c[k + 1].lo

\* the characters of the node's span that no child's span holds
GapChars(n) ==
    {input[p] : p \in {q \in n.span.lo..(n.span.hi - 1) :
                          \A c \in Range(n.children) : q < c.lo \/ q >= c.hi}}

\* the characters of the literals the grammar matches and does not store
DelimiterChars ==
    {HASH, SP, LF, EQ, COMMA, DQUOTE, "{", "}"}
    \cup Range(EOF) \cup Range(TYPE) \cup Range(HELP) \cup Range(UNIT)

\* the nodes that store every part of what they consume
TilingKinds == {"Metricset", "Metricfamily", "Metric", "EscapedString", "HelpEscapedString"}

\* C7 as stated: for every node of a successfully parsed tree the consumed spans
\* stored for its children, concatenated in order, are exactly the node's own
\* consumed span, with no gap and no overlap.
C7_SpanCompleteness == \A n \in Nodes : Tiles(n)

\* C7 as amended: the children's spans lie in order and without overlap inside
\* the node's span; they tile it exactly for Metricset, Metricfamily, Metric and
\* the escaped strings, while Exposition, MetricDescriptor, Sample, Exemplar,
\* Labels and Label leave gaps that hold only the literal delimiters.
C7_SpanCompletenessAmended ==
    \A n \in Nodes :
        /\ InOrderInside(n)
        /\ IF n.kind \in TilingKinds THEN Tiles(n) ELSE GapChars(n) \subseteq DelimiterChars

C7_Witness ==
    /\ called = "exposition"
    /\ \E n \in Nodes : n.kind = "Sample" /\ ~Tiles(n)
    /\ \E n \in Nodes : n.kind = "Metricfamily" /\ Len(n.children) >= 2
    /\ \E n \in Nodes : n.kind = "HelpEscapedString" /\ Len(n.children) >= 2

\* the text a fragment stands for
FragmentText(f) ==
    CASE f.node.kind = "Normal" -> TextOf(f.node.text[1])
      [] f.node.kind = "Lf" -> <<BS, "n">>
      [] f.node.kind = "Dquote" -> <<BS, DQUOTE>>
      [] f.node.kind = "Bs" -> <<BS, BS>>

\* C8: for both escape dialects and every input the decoder succeeds, and the
\* raw spans of the fragments, concatenated in order, are the text it consumed;
\* each fragment's span is Normal's own text, or the two characters of the
\* escape for Lf, Dquote and Bs.
C8_FragmentsReproduceText ==
    called \in {"escaped_string", "help_escaped_string"} =>
        /\ IsOk(result)
        /\ Concat([k \in 1..Len(result.val) |-> TextOf(result.val[k].span)])
               = SubSeq(input, 1, result.rest - 1)
        /\ \A f \in Range(result.val) :
               /\ TextOf(f.span) = FragmentText(f)
               /\ f.node.kind = "Normal" => f.node.text = Some(f.span)

C8_Witness ==
    /\ called = "escaped_string"
    /\ \E f \in Range(result.val) : f.node.kind = "Normal"
    /\ \E f \in Range(result.val) : f.node.kind = "Dquote"

\* the names of the contexts of an error chain, innermost first
ContextNames(err) ==
    LET cs == SelectSeq(err, LAMBDA e : e.kind = "Context")
    IN [k \in 1..Len(cs) |-> cs[k].what]

\* where the metricset of the buffer stops, and the failed attempt at one more
\* family there that made many0 stop
Stop == metricset(input, 1).rest
LastFamilyAttempt == CHOOSE y \in {metricfamily(input, st) : st \in {Stop}} : TRUE

\* C9 as stated: whenever exposition fails, the error carries the context of
\* every sub-production that failed on the way and the offset of the deepest
\* failure: the failure of the family many0 tried last is not discarded.
C9_NoFailureDiscarded ==
    (called = "exposition" /\ ~IsOk(result) /\ IsOk(metricset(input, 1))) =>
        /\ \A e \in Range(LastFamilyAttempt.err) :
               e.kind = "Context" => e \in Range(result.err)
        /\ result.err[1].at = LastFamilyAttempt.err[1].at

\* C9 as amended: a failed exposition always carries the context "exposition".
\* A recoverable failure of a nested production is discarded by many0, opt and
\* alt: the error is then only the mismatch of the terminator "# EOF", at the
\* offset where the metricset stopped, under the context "exposition" alone.
\* Only an unrecoverable failure (an exponent without digits, raised by cut)
\* carries the nesting chain realnumber .. sample, metric, metricfamily,
\* metricset, exposition and the offset of the deepest failure.
C9_ErrorChainAmended ==
    (called = "exposition" /\ ~IsOk(result)) =>
        LET err == result.err
            ctx == ContextNames(err)
        IN /\ Len(err) >= 2
           /\ err[Len(err)] = [at |-> 1, kind |-> "Context", what |-> "exposition"]
           /\ result.ok = "Error" =>
                  /\ IsOk(metricset(input, 1))
                  /\ Len(err) = 2
                  /\ \/ err[1] = [at |-> Stop, kind |-> "Char", what |-> HASH]
                     \/ err[1] = [at |-> Stop + 1, kind |-> "Char", what |-> SP]
                     \/ err[1] = [at |-> Stop + 2, kind |-> "Nom", what |-> "Tag"]
           /\ result.ok = "Failure" =>
                  /\ err[1].kind = "Nom" /\ err[1].what = "Digit"
                  /\ \A k \in 1..Len(err) : err[k].at <= err[1].at
                  /\ Len(ctx) >= 6
                  /\ ctx[1] = "realnumber"
                  /\ SubSeq(ctx, Len(ctx) - 4, Len(ctx))
                         = <<"sample", "metric", "metricfamily", "metricset", "exposition">>
                  /\ \A k \in 2..(Len(ctx) - 5) : ctx[k] \in {"number", "exemplar"}

C9_Witness ==
    /\ called = "exposition" /\ result.ok = "Error"
    /\ "number" \in Range(ContextNames(LastFamilyAttempt.err))
    /\ Len(result.err) = 2

\* text folded into a Normal fragment of the help dialect: characters other than
\* line feed and backslash, and backslash pairs other than \n and \\ (a
\* backslash is then always the first character of its pair)
FoldedHelpText(txt) ==
    \A k \in 1..Len(txt) :
        /\ txt[k] # LF
        /\ txt[k] = BS => (k < Len(txt) /\ txt[k + 1] \notin {"n", BS})

\* the fragments of the help dialect: Lf for \n, Bs for \\, never Dquote; every
\* other text in Normal fragments, never two of them in a row
HelpFragments ==
    /\ IsOk(result)
    /\ Tiles([span |-> Span(1, result.rest), children |-> SpansOf(result.val)])
    /\ \A k \in 1..Len(result.val) :
           LET f == result.val[k]
           IN /\ f.node.kind \in {"Normal", "Lf", "Bs"}
              /\ TextOf(f.span) = FragmentText(f)
              /\ f.node.kind = "Normal" => f.span.hi > f.span.lo /\ FoldedHelpText(TextOf(f.span))
              /\ (k > 1 /\ f.node.kind = "Normal") => result.val[k - 1].node.kind # "Normal"

\* C10 as stated: help_escaped_string recognises exactly \n (Lf) and \\ (Bs);
\* every other character except a line feed, a bare quote included, and every
\* other backslash pair is folded into a Normal fragment, so that decoding stops
\* only at a line feed or at the end; Normal fragments are maximal and Dquote is
\* never produced.
C10_HelpDialect ==
    called = "help_escaped_string" =>
        /\ HelpFragments
        /\ Remainder(input, result) # <<>> => Head(Remainder(input, result)) = LF

\* a backslash that starts no pair: the last character, or before a line feed
DanglingBackslash(txt) == txt[1] = BS /\ (Len(txt) = 1 \/ txt[2] = LF)

\* C10 as amended: as stated, except that decoding also stops at a backslash
\* that is the last character or stands before a line feed; that backslash is
\* not folded into a fragment.
C10_HelpDialectAmended ==
    called = "help_escaped_string" =>
        /\ HelpFragments
        /\ Remainder(input, result) # <<>> =>
               \/ Head(Remainder(input, result)) = LF
               \/ DanglingBackslash(Remainder(input, result))

C10_Witness ==
    /\ called = "help_escaped_string"
    /\ \E f \in Range(result.val) : f.node.kind = "Normal" /\ DQUOTE \in Range(TextOf(f.span))
    /\ Remainder(input, result) # <<>>
    /\ DanglingBackslash(Remainder(input, result))

\* the variant that carries the name of a keyword
VariantOf(word) ==
    CASE word = COUNTER -> "Counter"
      [] word = GAUGE -> "Gauge"
      [] word = HISTOGRAM -> "Histogram"
      [] word = GAUGEHISTOGRAM -> "Gaugehistogram"
      [] word = STATESET -> "Stateset"
      [] word = INFO -> "Info"
      [] word = SUMMARY -> "Summary"
      [] word = UNKNOWN -> "Unknown"

\* C11: metric_type applied to exactly one of the eight keywords counter, gauge,
\* histogram, gaugehistogram, stateset, info, summary, unknown succeeds, leaves
\* an empty remainder and returns the variant of the same name; gaugehistogram
\* yields Gaugehistogram and never Gauge with the remainder histogram, and no
\* keyword is shadowed by an earlier alternative that matches a prefix of it.
C11_KeywordVariants ==
    (called = "metric_type" /\ input \in MetricTypeKeywords) =>
        /\ IsOk(result)
        /\ Remainder(input, result) = <<>>
        /\ result.val = VariantOf(input)
        /\ input = GAUGEHISTOGRAM =>
               ~(result.val = "Gauge" /\ Remainder(input, result) = HISTOGRAM)

C11_Witness ==
    /\ called = "metric_type" /\ input = GAUGEHISTOGRAM
    /\ IsOk(result) /\ result.val = "Gaugehistogram" /\ ConsumedAll

\* where the lines of the buffer start; no line holds a line feed before its end
LineStarts == {1} \cup {k + 1 : k \in {j \in 1..(Len(input) - 1) : input[j] = LF}}
\* where the line "# EOF" of an exposition that ends in a line feed starts
EofStart == Len(input) - Len(EofLine)
IsDescriptorLine(p) == input[p] = HASH
\* the start of the line before the one that starts at p
PreviousLine(p) == CHOOSE q \in LineStarts : q < p /\ \A o \in LineStarts : o < p => o <= q
\* the first line, and every descriptor line that directly follows a sample line
ExpectedFamilyStarts ==
    {p \in LineStarts :
        /\ p < EofStart
        /\ p = 1 \/ (IsDescriptorLine(p) /\ ~IsDescriptorLine(PreviousLine(p)))}

\* C12: grouping, ordering and naming are not checked.  For every sequence of
\* individually well-formed descriptor and sample lines, in any order and with
\* equal, clashing or unrelated metric names, a descriptor after a sample
\* included, followed by "# EOF" and a line feed, exposition succeeds and
\* consumes the whole buffer; the families tile the lines, and a family starts
\* at the first line and at each descriptor line that directly follows a sample
\* line, nowhere else.
C12_GroupingNotChecked ==
    (called = "exposition" /\ input \in UngroupedExpositions) =>
        /\ IsOk(result)
        /\ ConsumedAll
        /\ LET families == result.val.metricset.node.metricfamily
           IN /\ result.val.metricset.span = Span(1, EofStart)
              /\ Tiles([span |-> Span(1, EofStart), children |-> SpansOf(families)])
              /\ {families[k].span.lo : k \in 1..Len(families)} = ExpectedFamilyStarts
              /\ Len(families) = Cardinality(ExpectedFamilyStarts)

C12_Witness ==
    /\ called = "exposition" /\ input \in UngroupedExpositions /\ IsOk(result)
    /\ LET families == result.val.metricset.node.metricfamily
       IN /\ Len(families) >= 2
          /\ families[1].node.metric_descriptor = <<>>
          /\ \E f \in Range(families) :
                 /\ Len(f.node.metric_descriptor) >= 1
                 /\ Len(f.node.metric) >= 1
                 /\ TextOf(f.node.metric_descriptor[1].node.metricname)
                        # TextOf(f.node.metric[1].node.sample[1].node.metricname)

====
